---- MODULE Spec2Model ----
(***************************************************************************)
(* Model of cnnlevelset/pascalvoc_util.py: the PascalVOC dataset utility.  *)
(*                                                                         *)
(* Four specifications share the variables below:                          *)
(*   Spec      - next_image_minibatch on the two training manifests        *)
(*   SpecFail  - the same, and load_annotations, with files that fail      *)
(*   SpecBbox  - get_class_bbox / _normalize_bbox on one annotation file   *)
(*   SpecTest  - get_test_data on the test manifest and the feature cache  *)
(***************************************************************************)
EXTENDS Integers, Sequences, FiniteSets, TLC

(***************************************************************************)
(* Bounds of the model.                                                    *)
(***************************************************************************)
MaxLen == 2     \* rows of a manifest file
MaxSize == 2    \* the size argument of a call
MaxObjs == 2    \* object entries of one annotation file
MaxCoord == 2   \* pixel coordinates of a bndbox, image width and height
MaxRows == 3    \* rows of a persisted feature / label array

VARIABLES
    train_singleobj,  \* self.train_singleobj (DataFrame)
    train_multiobj,   \* self.train_multiobj  (DataFrame)
    test_set,         \* self.test_set        (DataFrame)
    mb_idx,           \* self.mb_idx
    jpeg_images,      \* voc_dir/JPEGImages: identifiers whose .jpg exists
    annotations,      \* voc_dir/Annotations: identifier -> parsed .xml, or NoFile
    features,         \* ./data/features, ./data/labels: the persisted test arrays
    call,             \* the last call: operation, arguments, cursor before it
    ret,              \* what the last call returned or raised
    run               \* history: the train of consecutive sequential draws

vars == <<train_singleobj, train_multiobj, test_set, mb_idx, jpeg_images,
          annotations, features, call, ret, run>>

(***************************************************************************)
(* Helpers.                                                                *)
(***************************************************************************)
Min(a, b) == IF a <= b THEN a ELSE b

RECURSIVE GCD(_, _)
GCD(a, b) == IF b = 0 THEN a ELSE GCD(b, a % b)

Range(s) == {s[i] : i \in 1..Len(s)}

(***************************************************************************)
(* Class attributes (lines 20-29).                                         *)
(***************************************************************************)
img_idx == 0

lbl_idx == 1

labels ==
    <<"person", "bird", "cat", "cow", "dog", "horse", "sheep",
      "aeroplane", "bicycle", "boat", "bus", "car", "motorbike", "train",
      "bottle", "chair", "diningtable", "pottedplant", "sofa", "tvmonitor">>

ClassIdx == 0..(Len(labels) - 1)

\* label2idx = {lbl: idx for idx, lbl in enumerate(labels)}; the domain is
\* the vocabulary, a lookup outside it raises KeyError.
label2idx == [lbl \in Range(labels) |-> CHOOSE idx \in ClassIdx : labels[idx + 1] = lbl]

(***************************************************************************)
(* Annotation files.  A parsed file is [exists, width, height, object]:    *)
(* object is the sequence of <object> elements, each [name, bndbox] with   *)
(* bndbox = <<xmin, ymin, xmax, ymax>>, and exists tells a file from a     *)
(* missing one.  xmltodict leaves the 'object' key out of the parsed dict  *)
(* when the file holds no <object> element.                                *)
(***************************************************************************)
NoFile == [exists |-> FALSE]

ObjNames == {"person", "car", "dinosaur"}

Coords == 0..MaxCoord

box(a, b) == <<a, a, b, b>>

BndBoxes == {box(0, b) : b \in Coords} \cup {box(a, MaxCoord) : a \in Coords}

Objects == [name : ObjNames, bndbox : BndBoxes]

ObjectLists == UNION {[1..n -> Objects] : n \in 0..MaxObjs}

Dims == 1..MaxCoord

XmlFiles == [exists : {TRUE}, width : Dims, height : Dims, object : ObjectLists]

Zero == <<0, 1>>

\* Mutant of normalize: the division without float(), an integer division.
normalize_floor(x, s) == <<x \div s, 1>>

\* normalize(x, s): float(x) / s, kept exact as the reduced fraction
\* <<numerator, denominator>>; 0.0 is <<0, 1>>.
normalize(x, s) == LET g == GCD(x, s) IN <<x \div g, s \div g>>

normalize_bbox(bbox, img_dim) ==
    LET w == img_dim[1]
        h == img_dim[2]
    IN  <<normalize(bbox[1], w), normalize(bbox[2], h),
          normalize(bbox[3], w), normalize(bbox[4], h)>>

\* The loop of lines 131-139 over objs[k..]: acc is [raised, clses, bbox_cls].
RECURSIVE object_loop(_, _, _, _)
object_loop(objs, k, img_dim, acc) ==
    IF acc.raised # "none" \/ k > Len(objs) THEN acc
    ELSE IF objs[k].name \notin DOMAIN label2idx
         THEN [acc EXCEPT !.raised = "UnknownLabel"]
         ELSE LET idx == label2idx[objs[k].name]
                  bbox == normalize_bbox(objs[k].bndbox, img_dim)
              IN  object_loop(objs, k + 1, img_dim,
                              [raised |-> "none",
                               clses |-> [acc.clses EXCEPT ![idx] = 1],
                               bbox_cls |-> [acc.bbox_cls EXCEPT
                                                ![idx] = Append(@, bbox)]])

\* Lines 116-139: open and parse the file, then run the loop.
collect_objects(file) ==
    LET empty == [raised |-> "none",
                  clses |-> [i \in ClassIdx |-> 0],
                  bbox_cls |-> [i \in ClassIdx |-> <<>>]]
    IN  IF ~file.exists THEN [empty EXCEPT !.raised = "AnnotationNotFound"]
        ELSE IF file.object = <<>> THEN [empty EXCEPT !.raised = "KeyError"]
        ELSE object_loop(file.object, 1, <<file.width, file.height>>, empty)

\* The outcomes of np.random.randint(0, len(v)) for each key of bbox_cls
\* (line 142), as 1-based positions.
ChoicesOf(bbox_cls) ==
    UNION {{p \in [keys -> 1..MaxObjs] : \A k \in keys : p[k] <= Len(bbox_cls[k])} :
              keys \in {{k \in ClassIdx : bbox_cls[k] # <<>>}}}

RandChoices(file) == UNION {ChoicesOf(got.bbox_cls) : got \in {collect_objects(file)}}

\* get_class_bbox (lines 115-145) on a file, with the random positions rnd.
get_class_bbox(file, rnd) ==
    LET got == collect_objects(file)
    IN  IF got.raised # "none"
        THEN [status |-> got.raised]
        ELSE [status |-> "ok",
              clses |-> got.clses,
              bboxes |-> [k \in ClassIdx |->
                            IF got.bbox_cls[k] = <<>>
                            THEN <<Zero, Zero, Zero, Zero>>
                            ELSE got.bbox_cls[k][rnd[k]]]]

\* np.column_stack((clses, bboxes)): one row <<presence, xmin, ymin, xmax, ymax>>
\* per class.
column_stack(cb) == [k \in ClassIdx |-> <<cb.clses[k]>> \o cb.bboxes[k]]

(***************************************************************************)
(* DataFrames.  A frame is [index, img, ncols]: the row labels, column 0   *)
(* (the image identifiers) and the number of columns.  read_csv labels the *)
(* rows 0..N-1; slices, heads and samples keep the labels of their rows.   *)
(***************************************************************************)
Ids == 1..MaxLen

Frame(ids, ncols) == [index |-> [i \in 1..Len(ids) |-> i - 1], img |-> ids, ncols |-> ncols]

\* X.size: rows times columns.
Size(X) == Len(X.index) * X.ncols

\* The rows of X at the 1-based positions pos, in that order.
Take(X, pos) ==
    [index |-> [i \in 1..Len(pos) |-> X.index[pos[i]]],
     img |-> [i \in 1..Len(pos) |-> X.img[pos[i]]],
     ncols |-> X.ncols]

\* X[a:b] for 0 <= a <= b: the rows at 0-based positions a..min(b, N)-1.
Slice(X, a, b) ==
    LET n == Len(X.index)
        lo == Min(a, n)
        hi == Min(b, n)
    IN  Take(X, [i \in 1..(hi - lo) |-> lo + i])

\* X.head(n)
head(X, n) == Slice(X, 0, n)

\* The outcomes of X.sample(n) for n <= N: n distinct rows in any order.
Samples(X, n) ==
    {p \in [1..n -> 1..Len(X.index)] : \A i, j \in 1..n : i # j => p[i] # p[j]}

(***************************************************************************)
(* load_images (lines 83-88) and load_annotations (lines 90-95): the list  *)
(* comprehensions run item by item and an exception of one item ends the   *)
(* call.  A decoded, resized image is stood for by its identifier.         *)
(***************************************************************************)
RECURSIVE load_images_from(_, _, _)
load_images_from(names, k, X) ==
    IF k > Len(names) THEN [status |-> "ok", value |-> X]
    ELSE IF names[k] \notin jpeg_images
         THEN [status |-> "ImageNotFound", value |-> <<>>]
         ELSE load_images_from(names, k + 1, Append(X, names[k]))

load_images(img_names) == load_images_from(img_names.img, 1, <<>>)

\* Mutant of load_annotations_from: an item that fails is skipped.
RECURSIVE load_annotations_skip(_, _, _, _)
load_annotations_skip(names, rnds, k, y) ==
    IF k > Len(names) THEN [status |-> "ok", value |-> y]
    ELSE LET cb == get_class_bbox(annotations[names[k]], rnds[k])
         IN  IF cb.status # "ok"
             THEN load_annotations_skip(names, rnds, k + 1, y)
             ELSE load_annotations_skip(names, rnds, k + 1,
                                        Append(y, column_stack(cb)))

RECURSIVE load_annotations_from(_, _, _, _)
load_annotations_from(names, rnds, k, y) ==
    IF k > Len(names) THEN [status |-> "ok", value |-> y]
    ELSE LET cb == get_class_bbox(annotations[names[k]], rnds[k])
         IN  IF cb.status # "ok"
             THEN [status |-> cb.status, value |-> <<>>]
             ELSE load_annotations_from(names, rnds, k + 1,
                                        Append(y, column_stack(cb)))

load_annotations(img_names, rnds) == load_annotations_from(img_names.img, rnds, 1, <<>>)

\* The random positions get_class_bbox may draw for each row of a batch.
RECURSIVE BatchChoicesFrom(_, _)
BatchChoicesFrom(names, k) ==
    IF k > Len(names) THEN {<<>>}
    ELSE {<<p>> \o r : p \in RandChoices(annotations[names[k]]),
                       r \in BatchChoicesFrom(names, k + 1)}

BatchChoices(names) == BatchChoicesFrom(names, 1)

(***************************************************************************)
(* next_image_minibatch (lines 46-63).                                     *)
(***************************************************************************)
Modes == {"single", "multi"}

Manifest(mode) == IF mode = "single" THEN train_singleobj ELSE train_multiobj

\* Mutant of select_minibatch: reset is applied after the slice is taken.
select_minibatch_reset_late(X, idx, size, random, reset, smp) ==
    IF random
    THEN IF size > Len(X.index)
         THEN [raised |-> "ValueError", mb |-> Take(X, <<>>), adv |-> idx, mb_idx |-> idx]
         ELSE [raised |-> "none", mb |-> Take(X, smp), adv |-> idx, mb_idx |-> idx]
    ELSE LET c == IF reset THEN 0 ELSE idx
             adv == c + size
         IN  [raised |-> "none",
              mb |-> Slice(X, idx, idx + size),
              adv |-> adv,
              mb_idx |-> IF adv >= Size(X) THEN 0 ELSE adv]

\* Mutant of select_minibatch: reset is applied before the test of random.
select_minibatch_reset_first(X, idx, size, random, reset, smp) ==
    LET c == IF reset THEN 0 ELSE idx
        adv == c + size
    IN  IF random
        THEN IF size > Len(X.index)
             THEN [raised |-> "ValueError", mb |-> Take(X, <<>>), adv |-> c, mb_idx |-> c]
             ELSE [raised |-> "none", mb |-> Take(X, smp), adv |-> c, mb_idx |-> c]
        ELSE [raised |-> "none",
              mb |-> Slice(X, c, c + size),
              adv |-> adv,
              mb_idx |-> IF adv >= Size(X) THEN 0 ELSE adv]

\* Lines 51-61: the batch selected and the cursor left behind.  smp is the
\* outcome of X.sample(size); adv records the cursor after line 58.
select_minibatch(X, idx, size, random, reset, smp) ==
    IF random
    THEN IF size > Len(X.index)
         THEN [raised |-> "ValueError", mb |-> Take(X, <<>>), adv |-> idx, mb_idx |-> idx]
         ELSE [raised |-> "none", mb |-> Take(X, smp), adv |-> idx, mb_idx |-> idx]
    ELSE LET c == IF reset THEN 0 ELSE idx
             adv == c + size
         IN  [raised |-> "none",
              mb |-> Slice(X, c, c + size),
              adv |-> adv,
              mb_idx |-> IF adv >= Size(X) THEN 0 ELSE adv]

\* Line 63: both loads, images first; nothing is returned when one raises.
materialize(mb, rnds) ==
    LET X == load_images(mb)
        y == load_annotations(mb, rnds)
    IN  IF X.status # "ok" THEN [status |-> X.status, images |-> <<>>, annotations |-> <<>>]
        ELSE IF y.status # "ok" THEN [status |-> y.status, images |-> <<>>, annotations |-> <<>>]
        ELSE [status |-> "ok", images |-> X.value, annotations |-> y.value]

\* Mutant of next_image_minibatch: the cursor is rolled back when a load
\* raises.
next_image_minibatch_rollback(X, idx, sel, rnds) ==
    LET out == IF sel.raised # "none"
               THEN [status |-> sel.raised, images |-> <<>>, annotations |-> <<>>]
               ELSE materialize(sel.mb, rnds)
    IN  [mb_idx |-> IF out.status # "ok" THEN idx ELSE sel.mb_idx, ret |-> out]

\* The whole call: the cursor it leaves and what it returns.
next_image_minibatch(X, idx, sel, rnds) ==
    [mb_idx |-> sel.mb_idx,
     ret |-> IF sel.raised # "none"
             THEN [status |-> sel.raised, images |-> <<>>, annotations |-> <<>>]
             ELSE materialize(sel.mb, rnds)]

(***************************************************************************)
(* The files on disk.  Each identifier has a .jpg and a well-formed .xml,  *)
(* except for at most one identifier, which lacks its .jpg, lacks its .xml *)
(* or names a class outside the vocabulary in its .xml.  GoodDisk has no   *)
(* such identifier.                                                        *)
(***************************************************************************)
GoodXml(i) ==
    [exists |-> TRUE, width |-> MaxCoord, height |-> MaxCoord,
     object |-> <<[name |-> IF i % 2 = 0 THEN "person" ELSE "car",
                   bndbox |-> box(0, MaxCoord)]>>]

BadLabelXml ==
    [exists |-> TRUE, width |-> MaxCoord, height |-> MaxCoord,
     object |-> <<[name |-> "person", bndbox |-> box(0, MaxCoord)],
                  [name |-> "dinosaur", bndbox |-> box(0, MaxCoord)]>>]

Faults == {"noimg", "noxml", "badlabel"}

Disk(bad, fault) ==
    [jpeg |-> {i \in Ids : ~(i = bad /\ fault = "noimg")},
     xml |-> [i \in Ids |-> IF i # bad \/ fault = "noimg" THEN GoodXml(i)
                            ELSE IF fault = "noxml" THEN NoFile
                            ELSE BadLabelXml]]

GoodDisk == Disk(0, "noimg")

Disks == {GoodDisk} \cup {Disk(bad, fault) : bad \in Ids, fault \in Faults}

\* Whether resolving the annotation of identifier i fails on the current
\* disk: the file is missing or names a class outside the vocabulary.
AnnotationFails(i) ==
    \/ ~annotations[i].exists
    \/ \E k \in 1..Len(annotations[i].object) :
          annotations[i].object[k].name \notin Range(labels)

\* Whether resolving identifier i, image or annotation, fails.
Fails(i) == i \notin jpeg_images \/ AnnotationFails(i)

(***************************************************************************)
(* History of the current train of sequential draws: consecutive calls     *)
(* with random = false, reset = false, one mode and one size, the first of *)
(* them made with the cursor at 0.  count = 0 when there is no such train. *)
(***************************************************************************)
NoRun == [mode |-> "single", size |-> 0, count |-> 0, got |-> <<>>]

CeilDiv(n, s) == (n + s - 1) \div s

RunAfter(mode, size, random, reset, idx, out) ==
    IF random \/ reset \/ size = 0 \/ out.status # "ok" THEN NoRun
    ELSE IF /\ run.count > 0
            /\ run.mode = mode
            /\ run.size = size
            /\ run.count < CeilDiv(Len(Manifest(mode).index), size)
         THEN [run EXCEPT !.count = @ + 1, !.got = @ \o out.images]
         ELSE IF idx = 0
              THEN [mode |-> mode, size |-> size, count |-> 1, got |-> out.images]
              ELSE NoRun

(***************************************************************************)
(* Spec: the dataset object after __init__ (lines 31-44) and its           *)
(* minibatch calls.                                                        *)
(***************************************************************************)
NoCall == [op |-> "init"]

NoFeatures == [X |-> <<>>, y |-> <<>>]

\* _read_dataset (lines 169-170) of a manifest file of n rows and c columns
\* whose first column holds ids.
read_dataset(ids, c) == Frame(ids, c)

SingleIds(n) == [i \in 1..n |-> i]

MultiIds(n) == [i \in 1..n |-> MaxLen + 1 - i]

\* A manifest file holds the image column, and may hold a label column.
Cols == {img_idx + 1, lbl_idx + 1}

Init ==
    /\ \E n \in 1..MaxLen, c \in Cols :
          train_singleobj = read_dataset(SingleIds(n), c)
    /\ \E n \in 1..MaxLen, c \in Cols :
          train_multiobj = read_dataset(MultiIds(n), c)
    /\ test_set = read_dataset(SingleIds(1), 1)
    /\ mb_idx = 0
    /\ jpeg_images = GoodDisk.jpeg
    /\ annotations = GoodDisk.xml
    /\ features = NoFeatures
    /\ call = NoCall
    /\ ret = [status |-> "ok"]
    /\ run = NoRun

Sizes == 1..MaxSize

NextImageMinibatch ==
    \E size \in Sizes, random \in BOOLEAN, reset \in BOOLEAN, mode \in Modes :
      \E X \in {Manifest(mode)} :
      \E smp \in (IF random /\ size <= Len(X.index) THEN Samples(X, size) ELSE {<<>>}) :
        \E sel \in {select_minibatch(X, mb_idx, size, random, reset, smp)} :
        \E rnds \in BatchChoices(sel.mb.img) :
          \E out \in {next_image_minibatch(X, mb_idx, sel, rnds)} :
          /\ mb_idx' = out.mb_idx
          /\ ret' = out.ret
          /\ call' = [op |-> "next_image_minibatch", size |-> size,
                      random |-> random, reset |-> reset, mode |-> mode,
                      idx |-> mb_idx, mb |-> sel.mb, adv |-> sel.adv]
          /\ run' = RunAfter(mode, size, random, reset, mb_idx, out.ret)
          /\ UNCHANGED <<train_singleobj, train_multiobj, test_set,
                         jpeg_images, annotations, features>>

Next == NextImageMinibatch

Spec == Init /\ [][Next]_vars

(***************************************************************************)
(* SpecFail: the same calls on full-length manifests, over every disk of   *)
(* Disks.                                                                  *)
(***************************************************************************)
InitFail ==
    /\ train_singleobj = read_dataset(SingleIds(MaxLen), img_idx + 1)
    /\ train_multiobj = read_dataset(MultiIds(MaxLen), img_idx + 1)
    /\ test_set = read_dataset(SingleIds(1), 1)
    /\ mb_idx = 0
    /\ \E d \in Disks : jpeg_images = d.jpeg /\ annotations = d.xml
    /\ features = NoFeatures
    /\ call = NoCall
    /\ ret = [status |-> "ok"]
    /\ run = NoRun

\* load_annotations (lines 90-95) called on rows [a, a + size) of a manifest.
LoadAnnotations ==
    \E mode \in Modes, a \in 0..(MaxLen - 1), size \in Sizes :
      \E img_names \in {Slice(Manifest(mode), a, a + size)} :
        \E rnds \in BatchChoices(img_names.img) :
          \E y \in {load_annotations(img_names, rnds)} :
            /\ call' = [op |-> "load_annotations", mb |-> img_names]
            /\ ret' = [status |-> y.status, annotations |-> y.value]
            /\ run' = NoRun
            /\ UNCHANGED <<train_singleobj, train_multiobj, test_set, mb_idx,
                           jpeg_images, annotations, features>>

NextFail == NextImageMinibatch \/ LoadAnnotations

SpecFail == InitFail /\ [][NextFail]_vars

(***************************************************************************)
(* SpecBbox: get_class_bbox on the annotation file of identifier 1, drawn  *)
(* from XmlFiles or missing.                                               *)
(***************************************************************************)
InitBbox ==
    /\ train_singleobj = read_dataset(SingleIds(1), 1)
    /\ train_multiobj = read_dataset(MultiIds(1), 1)
    /\ test_set = read_dataset(SingleIds(1), 1)
    /\ mb_idx = 0
    /\ jpeg_images = Ids
    /\ \E f \in XmlFiles \cup {NoFile} :
          annotations = [i \in Ids |-> IF i = 1 THEN f ELSE NoFile]
    /\ features = NoFeatures
    /\ call = NoCall
    /\ ret = [status |-> "ok"]
    /\ run = NoRun

GetClassBbox ==
    \E img_name \in Ids :
      \E rnd \in RandChoices(annotations[img_name]) :
        /\ call' = [op |-> "get_class_bbox", img_name |-> img_name]
        /\ ret' = get_class_bbox(annotations[img_name], rnd)
        /\ UNCHANGED <<train_singleobj, train_multiobj, test_set, mb_idx,
                       jpeg_images, annotations, features, run>>

NextBbox == GetClassBbox

SpecBbox == InitBbox /\ [][NextBbox]_vars

(***************************************************************************)
(* get_test_data (lines 65-81) and SpecTest.  The persisted arrays are     *)
(* sequences of rows; row i of X is <<"x", i>>, row i of y is <<"y", i>>.  *)
(***************************************************************************)
Array(tag, n) == [i \in 1..n |-> <<tag, i - 1>>]

\* self._load_features(self.testset_name), lines 153-160.
load_features_test == features

\* A[idxes] for a list of row numbers: IndexError when one is out of bounds.
InBounds(A, idxes) == \A k \in 1..Len(idxes) : idxes[k] < Len(A)

Index(A, idxes) == [k \in 1..Len(idxes) |-> A[idxes[k] + 1]]

Raised(status) == [status |-> status, X_img |-> <<>>, X |-> <<>>, y |-> <<>>]

\* Lines 73-81, for the rows imgs of the test manifest.
test_data_of(imgs) ==
    LET X_img == load_images(imgs)
        Xy == load_features_test
        idxes == imgs.index
    IN  IF X_img.status # "ok" THEN Raised(X_img.status)
        ELSE IF ~InBounds(Xy.X, idxes) \/ ~InBounds(Xy.y, idxes) THEN Raised("IndexError")
        ELSE LET X == Index(Xy.X, idxes)
                 y == Index(Xy.y, idxes)
             IN  IF ~(Len(X_img.value) = Len(X) /\ Len(X) = Len(y))
                 THEN Raised("ShapeMismatch")
                 ELSE [status |-> "ok", X_img |-> X_img.value, X |-> X, y |-> y]

\* Lines 66-69 and the rest; smp is the outcome of test_set.sample(size).
get_test_data(size, random, smp) ==
    IF random
    THEN IF size > Len(test_set.index)
         THEN Raised("ValueError")
         ELSE test_data_of(Take(test_set, smp))
    ELSE test_data_of(head(test_set, size))

InitTest ==
    /\ train_singleobj = read_dataset(SingleIds(1), 1)
    /\ train_multiobj = read_dataset(MultiIds(1), 1)
    /\ \E n \in 1..MaxLen, c \in Cols : test_set = read_dataset(SingleIds(n), c)
    /\ mb_idx = 0
    /\ \E d \in {GoodDisk} \cup {Disk(bad, "noimg") : bad \in Ids} :
          jpeg_images = d.jpeg /\ annotations = d.xml
    /\ \E nx \in 0..MaxRows, ny \in 0..MaxRows :
          features = [X |-> Array("x", nx), y |-> Array("y", ny)]
    /\ call = NoCall
    /\ ret = [status |-> "ok"]
    /\ run = NoRun

GetTestData ==
    \E size \in Sizes, random \in BOOLEAN :
      \E smp \in (IF random /\ size <= Len(test_set.index)
                  THEN Samples(test_set, size) ELSE {<<>>}) :
        /\ call' = [op |-> "get_test_data", size |-> size, random |-> random,
                    imgs |-> IF random
                             THEN Take(test_set, smp)
                             ELSE head(test_set, size)]
        /\ ret' = get_test_data(size, random, smp)
        /\ UNCHANGED <<train_singleobj, train_multiobj, test_set, mb_idx,
                       jpeg_images, annotations, features, run>>

NextTest == GetTestData

SpecTest == InitTest /\ [][NextTest]_vars

(***************************************************************************)
(* Properties.                                                             *)
(***************************************************************************)
IsDraw == call.op = "next_image_minibatch"

IsSeqDraw == IsDraw /\ ~call.random

\* The cursor a sequential draw starts from: 0 under reset.
StartOf(c) == IF c.reset THEN 0 ELSE c.idx

\* C1: ceil(N/s) consecutive sequential draws of size s from cursor 0
\* return the manifest in order, each identifier once, and the cursor is
\* back at 0 after the last of them and not before.
C1_SequentialCoverage ==
    run.count > 0 =>
        LET X == Manifest(run.mode)
            need == CeilDiv(Len(X.index), run.size)
        IN  /\ run.count = need => run.got = X.img /\ mb_idx = 0
            /\ run.count < need => mb_idx # 0

\* C2: a sequential draw returns the identifiers at positions
\* [c, min(c + size, N)) of the manifest of its mode, in order, c being 0
\* under reset and the cursor before the call otherwise, and the cursor is
\* advanced from c by size.
C2_SequentialSlice ==
    IsSeqDraw =>
        LET X == Manifest(call.mode)
            N == Len(X.index)
            c == StartOf(call)
            lo == Min(c, N)
            hi == Min(c + call.size, N)
        IN  /\ call.mb.index = [i \in 1..(hi - lo) |-> lo + i - 1]
            /\ call.mb.img = [i \in 1..(hi - lo) |-> X.img[lo + i]]
            /\ ret.status = "ok" =>
                  /\ ret.images = call.mb.img
                  /\ Len(ret.annotations) = hi - lo
            /\ call.adv = c + call.size

C2_Witness ==
    /\ IsSeqDraw /\ call.reset /\ call.idx > 0
    /\ ret.status = "ok" /\ Len(ret.images) = MaxLen

\* C3: after a sequential draw the cursor is within the rows of the
\* manifest of its mode, 0 <= cursor < N.
C3_CursorInRange ==
    IsSeqDraw => mb_idx >= 0 /\ mb_idx < Len(Manifest(call.mode).index)

\* C4: a random draw leaves the cursor where it was, whatever size, mode
\* and reset are, and selects size pairwise distinct rows of the manifest
\* of its mode when size <= N.
C4_RandomLeavesCursor ==
    (IsDraw /\ call.random) =>
        LET X == Manifest(call.mode)
            N == Len(X.index)
            pos == call.mb.index
        IN  /\ mb_idx = call.idx
            /\ call.size <= N =>
                  /\ Len(pos) = call.size
                  /\ \A i \in 1..Len(pos) : pos[i] \in 0..(N - 1)
                  /\ \A i, j \in 1..Len(pos) : i # j => pos[i] # pos[j]
                  /\ call.mb.img = [i \in 1..Len(pos) |-> X.img[pos[i] + 1]]
                  /\ ret.status = "ok" => ret.images = call.mb.img

C4_Witness ==
    /\ IsDraw /\ call.random /\ call.reset /\ call.idx > 0
    /\ call.size = MaxLen /\ Len(ret.images) = MaxLen

\* C8: when resolving one identifier of the batch fails, the call
\* (next_image_minibatch, load_annotations) fails and returns no image and
\* no annotation; a call that returns has one image and one annotation per
\* identifier of the batch.
C8_NoPartialResults ==
    /\ IsDraw =>
          LET names == call.mb.img
          IN  /\ (\E k \in 1..Len(names) : Fails(names[k])) =>
                    /\ ret.status # "ok"
                    /\ ret.images = <<>>
                    /\ ret.annotations = <<>>
              /\ ret.status = "ok" =>
                    /\ Len(ret.images) = Len(names)
                    /\ Len(ret.annotations) = Len(names)
    /\ call.op = "load_annotations" =>
          LET names == call.mb.img
          IN  /\ (\E k \in 1..Len(names) : AnnotationFails(names[k])) =>
                    ret.status # "ok" /\ ret.annotations = <<>>
              /\ ret.status = "ok" => Len(ret.annotations) = Len(names)

C8_Witness ==
    /\ IsDraw /\ Len(call.mb.img) = MaxLen
    /\ ~Fails(call.mb.img[1]) /\ Fails(call.mb.img[MaxLen])
    /\ ret.status = "UnknownLabel" /\ ret.images = <<>>

\* C9: a sequential draw without reset in one mode that follows a
\* sequential draw in the other mode slices from the offset that draw
\* left; when the offset is at or past the rows of its manifest the batch
\* is empty and the cursor becomes 0.
C9_SharedCursor ==
    [][(/\ IsSeqDraw
        /\ call'.op = "next_image_minibatch" /\ ~call'.random /\ ~call'.reset
        /\ call'.mode # call.mode)
       => LET X == Manifest(call'.mode)
          IN  /\ call'.idx = mb_idx
              /\ call'.mb = Slice(X, mb_idx, mb_idx + call'.size)
              /\ mb_idx >= Len(X.index) =>
                    /\ call'.mb.img = <<>>
                    /\ ret'.images = <<>>
                    /\ mb_idx' = 0]_vars

IsBboxCall == call.op = "get_class_bbox"

\* The file the last get_class_bbox call read.
FileRead == annotations[call.img_name]

\* The positions of the objects of class i in a file.
ObjectsOf(file, i) == {k \in 1..Len(file.object) : file.object[k].name = labels[i + 1]}

InVocabulary(file) ==
    \A k \in 1..Len(file.object) : file.object[k].name \in Range(labels)

\* The fraction f is x / s.
IsRatio(f, x, s) == f[2] > 0 /\ f[1] * s = x * f[2]

\* The bbox row is the box b divided by the image width and height.
IsNormalized(row, b, file) ==
    /\ IsRatio(row[1], b[1], file.width)
    /\ IsRatio(row[2], b[2], file.height)
    /\ IsRatio(row[3], b[3], file.width)
    /\ IsRatio(row[4], b[4], file.height)

AllZero(row) == \A j \in 1..4 : row[j][1] = 0

InUnitSquare(row) == \A j \in 1..4 : row[j][1] >= 0 /\ row[j][1] <= row[j][2]

\* The pixel box lies within the image and is not (0, 0, 0, 0).
InImage(b, file) ==
    /\ b[1] <= file.width /\ b[3] <= file.width
    /\ b[2] <= file.height /\ b[4] <= file.height
    /\ b # <<0, 0, 0, 0>>

\* C5: for a record whose class names are all in the vocabulary,
\* get_class_bbox returns presence 1 exactly for the classes that have an
\* object, a zero row for every other class, and for a class with objects
\* the normalized box of one of its own objects.
C5_PresenceAndBoxes ==
    (IsBboxCall /\ FileRead.exists /\ InVocabulary(FileRead)) =>
        /\ ret.status = "ok"
        /\ \A i \in ClassIdx :
              LET own == ObjectsOf(FileRead, i)
              IN  /\ ret.clses[i] = IF own # {} THEN 1 ELSE 0
                  /\ own = {} => ret.bboxes[i] = <<Zero, Zero, Zero, Zero>>
                  /\ own # {} =>
                        \E k \in own :
                           IsNormalized(ret.bboxes[i], FileRead.object[k].bndbox, FileRead)

\* C6 as stated: every class with presence 1 has a bbox row that is not
\* all-zero and lies within [0,1]^4.
C6_RowInUnitSquare ==
    (IsBboxCall /\ ret.status = "ok") =>
        \A i \in ClassIdx :
           ret.clses[i] = 1 => ~AllZero(ret.bboxes[i]) /\ InUnitSquare(ret.bboxes[i])

\* C6 amended: when every object's pixel box lies within the image and is
\* not (0, 0, 0, 0), every class with presence 1 has a bbox row that is not
\* all-zero and lies within [0,1]^4.
C6_RowInUnitSquareOfValidBoxes ==
    (/\ IsBboxCall /\ ret.status = "ok"
     /\ \A k \in 1..Len(FileRead.object) : InImage(FileRead.object[k].bndbox, FileRead))
    => \A i \in ClassIdx :
          ret.clses[i] = 1 => ~AllZero(ret.bboxes[i]) /\ InUnitSquare(ret.bboxes[i])

C6_Witness ==
    /\ IsBboxCall /\ ret.status = "ok"
    /\ Len(FileRead.object) = MaxObjs
    /\ \A k \in 1..Len(FileRead.object) : InImage(FileRead.object[k].bndbox, FileRead)
    /\ FileRead.object[1].name = FileRead.object[MaxObjs].name
    /\ FileRead.object[1].bndbox # FileRead.object[MaxObjs].bndbox
    /\ \E i \in ClassIdx :
          /\ ret.clses[i] = 1
          /\ IsNormalized(ret.bboxes[i], FileRead.object[MaxObjs].bndbox, FileRead)

IsTestCall == call.op = "get_test_data"

\* The rows of the persisted array A that the row numbers idxes resolve to.
RowsResolved(A, idxes) == Cardinality({k \in 1..Len(idxes) : idxes[k] < Len(A)})

\* The image batch of the last get_test_data call was resolved.
ImagesResolved == \A k \in 1..Len(call.imgs.img) : call.imgs.img[k] \in jpeg_images

\* C7: get_test_data fails with ShapeMismatch whenever the image batch and
\* the feature or label batch resolved from the cache differ in rows, and
\* returns only when the three row counts are equal.
C7_ShapeMismatch ==
    (IsTestCall /\ ret.status # "ValueError" /\ ImagesResolved) =>
        LET n == Len(call.imgs.index)
            differ == \/ RowsResolved(features.X, call.imgs.index) # n
                      \/ RowsResolved(features.y, call.imgs.index) # n
        IN  /\ differ => ret.status = "ShapeMismatch"
            /\ ret.status = "ok" =>
                  Len(ret.X_img) = n /\ Len(ret.X) = n /\ Len(ret.y) = n

====
